---- MODULE Spec2Model ----
(***************************************************************************)
(* dl-releases: release resolution (extract_version, Release::find_asset,  *)
(* Release::version), archive extraction (extract_file) and the            *)
(* orchestration around them (handle_repo, execute_from_config).           *)
(*                                                                         *)
(* Strings are sequences of one-character strings, so that lowering,       *)
(* substring search, suffix tests and the version scanner are computed     *)
(* character by character as the code computes them.                       *)
(***************************************************************************)
EXTENDS Integers, Sequences, FiniteSets, TLC

VARIABLES
    s,          \* utils.rs extract_version: the text handed to it
    version,    \* result of extract_version / of Release::version
    release,    \* domain/release.rs Release (tag_name, body, assets)
    pat,        \* the asset pattern handed to Release::find_asset
    asset,      \* result of Release::find_asset
    path,       \* extract_file: path of the archive (sequence of components)
    fname,      \* extract_file: name of the file wanted from the archive
    tarball,    \* the file stored at `path`
    bin,        \* the files of the output directory, by name
    before,     \* the output directory as it was when extract_file was called
    extension,  \* extract_file: SupportedExtension of the archive
    file,       \* extract_file: TRUE once File::open(path) has succeeded
    output_file,\* extract_file: TRUE once the output file has been created
    pos,        \* units decoded so far (Gz) / entries read so far (TarGz)
    writer,     \* contents of the BufWriter buffer (Gz) / unpack progress
    perms,      \* set_execute_permission: the permissions value
    xpc,        \* extract_file: position in the code
    extracted,  \* extract_file: its result
    config,     \* config.rs Configuration.repos, as read from the file
    repos,      \* main.rs execute_from_config: the parsed (repo, pat) pairs
    idx,        \* execute_from_config: position of the loop in `repos`
    run,        \* result of execute_from_config
    handled,    \* the handle_repo calls made so far and their results
    pc,         \* execute_from_config / handle_repo: position in the code
    current_version,    \* handle_repo local
    release_version,    \* handle_repo local
    extracted_version   \* handle_repo local

mainVars == <<config, repos, idx, run, handled, pc, current_version,
              release_version, extracted_version>>
pureVars == <<s, version, release, pat, asset, mainVars>>
extractVars == <<path, fname, tarball, bin, before, extension, file,
                 output_file, pos, writer, perms, xpc, extracted>>
vars == <<pureVars, extractVars>>

None == [tag |-> "None"]

(***************************************************************************)
(* Bounds                                                                  *)
(***************************************************************************)
MaxTextLen == 7      \* longest text handed to extract_version
MaxAssets  == 3      \* longest asset list of a release
MaxNameLen == 2      \* longest asset name
MaxPatLen  == 2      \* longest asset pattern
MaxEntries == 3      \* most entries of a tar archive
MaxData    == 3      \* most units of data in a gzip stream
BufCap     == 2      \* units the BufWriter buffer holds
MaxRepos   == 2      \* most entries of the configuration file
MaxTagLen  == 6      \* longest tag name of a release

(***************************************************************************)
(* Generic helpers                                                         *)
(***************************************************************************)
SeqsUpTo(S, n) == UNION { [1..k -> S] : k \in 0..n }

(***************************************************************************)
(* Characters                                                              *)
(***************************************************************************)
AsciiDigits == {"0", "1"}
\* "u3" stands for one non-ASCII decimal digit (U+0663): the regex class \d
\* is Unicode-aware, semver's number grammar is ASCII only.
UnicodeDigits == {"u3"}
TextChars == AsciiDigits \cup UnicodeDigits \cup {".", "v"}

NameChars == {"l", "L"}

\* char::to_lowercase on the modelled alphabet
LowerChar(c) ==
    CASE c = "L" -> "l"
      [] OTHER   -> c

\* str::to_lowercase
to_lowercase(str) == [i \in 1..Len(str) |-> LowerChar(str[i])]

\* str::starts_with at a given 1-based offset
MatchesAt(hay, needle, i) ==
    /\ i + Len(needle) - 1 <= Len(hay)
    /\ \A k \in 1..Len(needle) : hay[i + k - 1] = needle[k]

\* str::contains(&str): scan the offsets left to right
RECURSIVE ContainsFrom(_, _, _)
ContainsFrom(hay, needle, i) ==
    IF i + Len(needle) - 1 > Len(hay) THEN FALSE
    ELSE IF MatchesAt(hay, needle, i) THEN TRUE
    ELSE ContainsFrom(hay, needle, i + 1)

contains(hay, needle) == ContainsFrom(hay, needle, 1)

\* str::ends_with
ends_with(str, suffix) ==
    /\ Len(suffix) <= Len(str)
    /\ SubSeq(str, Len(str) - Len(suffix) + 1, Len(str)) = suffix

(***************************************************************************)
(* utils.rs: extract_version                                               *)
(***************************************************************************)
\* semver numbers are u64 with checked arithmetic.  The limit is scaled down
\* (three-digit groups reach it) so that the overflow branch is exercised.
MaxNumber == 100

IsDigit(c) == c \in AsciiDigits \cup UnicodeDigits      \* regex \d

\* length of the run of \d characters starting at position i (greedy \d+)
RECURSIVE DigitRun(_, _)
DigitRun(str, i) ==
    IF i <= Len(str) /\ IsDigit(str[i]) THEN 1 + DigitRun(str, i + 1) ELSE 0

\* end position of a match of \d+\.\d+\.\d+ anchored at i, 0 when there is none
MatchEnd(str, i) ==
    LET r1 == DigitRun(str, i)
        d1 == i + r1
        r2 == DigitRun(str, d1 + 1)
        d2 == d1 + 1 + r2
        r3 == DigitRun(str, d2 + 1)
    IN  IF /\ r1 > 0
           /\ d1 <= Len(str) /\ str[d1] = "."
           /\ r2 > 0
           /\ d2 <= Len(str) /\ str[d2] = "."
           /\ r3 > 0
        THEN d2 + r3
        ELSE 0

\* Regex::captures: the leftmost match, <<start, end>> or <<>>
RECURSIVE CapturesFrom(_, _)
RECURSIVE CapturesLast(_, _)
\* faulty variant: the scanner keeps the last match instead of the first
CapturesLast(str, i) ==
    IF i < 1 THEN <<>>
    ELSE IF MatchEnd(str, i) > 0 THEN <<i, MatchEnd(str, i)>>
    ELSE CapturesLast(str, i - 1)

RE_captures_last(str) == CapturesLast(str, Len(str))

CapturesFrom(str, i) ==
    IF i > Len(str) THEN <<>>
    ELSE IF MatchEnd(str, i) > 0 THEN <<i, MatchEnd(str, i)>>
    ELSE CapturesFrom(str, i + 1)

RE_captures(str) == CapturesFrom(str, 1)

DigitValue(c) == CASE c = "0" -> 0 [] c = "1" -> 1 [] OTHER -> 3

\* semver numeric identifier: ASCII digits, no leading zero, checked u64
\* arithmetic.  Result: [ok, value, len] (len = characters consumed).
RECURSIVE NumericIdentifier(_, _, _)
NumericIdentifier(input, len, value) ==
    IF len < Len(input) /\ input[len + 1] \in AsciiDigits
    THEN IF value = 0 /\ len > 0
         THEN [ok |-> FALSE, value |-> 0, len |-> len]          \* leading zero
         ELSE IF value * 10 + DigitValue(input[len + 1]) > MaxNumber
         THEN [ok |-> FALSE, value |-> 0, len |-> len]          \* overflow
         ELSE NumericIdentifier(input, len + 1,
                                value * 10 + DigitValue(input[len + 1]))
    ELSE [ok |-> len > 0, value |-> value, len |-> len]

Rest(input, n) == SubSeq(input, n + 1, Len(input))

VersionErr == [tag |-> "ParseError", major |-> 0, minor |-> 0, patch |-> 0,
               text |-> <<>>]

\* semver::Version::parse on a text without pre-release or build metadata
Version_parse(input) ==
    LET ma == NumericIdentifier(input, 0, 0)
        i1 == Rest(input, ma.len)
        mi == NumericIdentifier(Rest(i1, 1), 0, 0)
        i2 == Rest(Rest(i1, 1), mi.len)
        pa == NumericIdentifier(Rest(i2, 1), 0, 0)
        i3 == Rest(Rest(i2, 1), pa.len)
    IN  IF ~ma.ok \/ i1 = <<>> \/ i1[1] # "." THEN VersionErr
        ELSE IF ~mi.ok \/ i2 = <<>> \/ i2[1] # "." THEN VersionErr
        ELSE IF ~pa.ok \/ i3 # <<>> THEN VersionErr
        ELSE [tag |-> "Ok", major |-> ma.value, minor |-> mi.value,
              patch |-> pa.value, text |-> <<>>]

\* faulty variant: a text without a match yields the default version 0.0.0
extract_version_default(str) ==
    LET m == RE_captures(str)
    IN  IF m = <<>>
        THEN [tag |-> "Ok", major |-> 0, minor |-> 0, patch |-> 0,
              text |-> <<>>]
        ELSE Version_parse(SubSeq(str, m[1], m[2]))

extract_version(str) ==
    LET m == RE_captures(str)
    IN  IF m = <<>>
        THEN [tag |-> "NoVersionFound", major |-> 0, minor |-> 0, patch |-> 0,
              text |-> str]
        ELSE Version_parse(SubSeq(str, m[1], m[2]))

(***************************************************************************)
(* domain/release.rs: Release::find_asset                                  *)
(***************************************************************************)
NoAssetRec == [name |-> <<>>, browser_download_url |-> 0]

NoRelease == [tag_name |-> <<>>, body |-> <<>>, assets |-> <<>>]

\* faulty variant: several candidates, the first one is picked
find_asset_first(rel, p) ==
    LET res == SelectSeq(rel.assets,
                         LAMBDA o : contains(to_lowercase(o.name), p))
    IN  IF res = <<>>
        THEN [tag |-> "NoAsset", pat |-> p, assets |-> <<>>,
              asset |-> NoAssetRec]
        ELSE [tag |-> "Ok", pat |-> <<>>, assets |-> <<>>, asset |-> res[1]]

find_asset(rel, p) ==
    LET res == SelectSeq(rel.assets,
                         LAMBDA o : contains(to_lowercase(o.name), p))
    IN  IF res = <<>>
        THEN [tag |-> "NoAsset", pat |-> p, assets |-> <<>>,
              asset |-> NoAssetRec]
        ELSE IF Len(res) > 1
        THEN [tag |-> "ManyAssets", pat |-> p,
              assets |-> [i \in 1..Len(res) |-> res[i].name],
              asset |-> NoAssetRec]
        ELSE [tag |-> "Ok", pat |-> <<>>, assets |-> <<>>, asset |-> res[1]]

\* Release::version: the tag name first, then the body
Release_version(rel) ==
    IF extract_version(rel.tag_name).tag = "Ok"
    THEN extract_version(rel.tag_name)
    ELSE extract_version(rel.body)


(***************************************************************************)
(* utils.rs: SupportedExtension::from_path                                 *)
(***************************************************************************)
CurDir    == <<".">>
ParentDir == <<".", ".">>
NoName    == <<>>

TAR_GZ == <<".", "t", "a", "r", ".", "g", "z">>
GZ     == <<".", "g", "z">>

\* Path::components().next_back(): a "." that is not leading is skipped
RECURSIVE LastComponent(_)
LastComponent(p) ==
    IF p = <<>> THEN NoName
    ELSE IF Len(p) > 1 /\ p[Len(p)] = CurDir
    THEN LastComponent(SubSeq(p, 1, Len(p) - 1))
    ELSE p[Len(p)]

\* Path::file_name: the last component when it is a normal one
Path_file_name(p) ==
    IF LastComponent(p) \in {CurDir, ParentDir} THEN NoName
    ELSE LastComponent(p)

\* faulty variant: the ".gz" test comes first
from_path_gz_first(p) ==
    IF Path_file_name(p) = NoName THEN "NoFileName"
    ELSE IF ends_with(Path_file_name(p), GZ) THEN "Gz"
    ELSE IF ends_with(Path_file_name(p), TAR_GZ) THEN "TarGz"
    ELSE "UnsupportedExtension"

from_path(p) ==
    IF Path_file_name(p) = NoName THEN "NoFileName"
    ELSE IF ends_with(Path_file_name(p), TAR_GZ) THEN "TarGz"
    ELSE IF ends_with(Path_file_name(p), GZ) THEN "Gz"
    ELSE "UnsupportedExtension"

(***************************************************************************)
(* Permission bits                                                         *)
(***************************************************************************)
RECURSIVE BitOr(_, _)
BitOr(a, b) ==
    IF a = 0 THEN b
    ELSE IF b = 0 THEN a
    ELSE (IF a % 2 = 1 \/ b % 2 = 1 THEN 1 ELSE 0)
         + 2 * BitOr(a \div 2, b \div 2)

RECURSIVE BitAnd(_, _)
BitAnd(a, b) ==
    IF a = 0 \/ b = 0 THEN 0
    ELSE (IF a % 2 = 1 /\ b % 2 = 1 THEN 1 ELSE 0)
         + 2 * BitAnd(a \div 2, b \div 2)

ExecBits   == 73      \* 0o111
PermMask   == 511     \* 0o777, tar keeps these bits of the header mode
CreateMode == 420     \* 0o644: a file created with 0o666 under umask 0o022

\* faulty variant: only the owner's execute bit is added
exec_mode_owner(m) == BitOr(m, 64)

\* perms.mode() | 0o111
exec_mode(m) == BitOr(m, ExecBits)

(***************************************************************************)
(* utils.rs: extract_file, step by step                                    *)
(***************************************************************************)
NoFile == [exists |-> FALSE, content |-> <<>>, mode |-> 0]

target == bin[fname]

SetTarget(f) == [bin EXCEPT ![fname] = f]

\* faulty variant: the whole entry path is compared with the wanted name
entry_matches_path(e, name) == e.path = <<name>>

\* line 89-92: the entry's base name equals the wanted name
entry_matches(e, name) ==
    /\ Path_file_name(e.path) # NoName
    /\ Path_file_name(e.path) = name

Finish(r) ==
    /\ xpc' = "done"
    /\ extracted' = r

\* line 73: SupportedExtension::from_path(path)?
Classify ==
    /\ xpc = "classify"
    /\ extension' = from_path(path)
    /\ IF from_path(path) \in {"TarGz", "Gz"}
       THEN xpc' = "open" /\ UNCHANGED extracted
       ELSE Finish(from_path(path))
    /\ UNCHANGED <<pureVars, path, fname, tarball, bin, before, file,
                   output_file, pos, writer, perms>>

\* line 74: File::open(path)
Open ==
    /\ xpc = "open"
    /\ IF tarball.exists
       THEN /\ file' = TRUE
            /\ xpc' = IF extension = "Gz" THEN "gz_create" ELSE "tar_next"
            /\ UNCHANGED extracted
       ELSE /\ Finish("OpenFailed")
            /\ UNCHANGED file
    /\ UNCHANGED <<pureVars, path, fname, tarball, bin, before, extension,
                   output_file, pos, writer, perms>>

\* line 78-79: File::create(&outpath) truncates an existing file in place
\* and keeps its mode; BufWriter::new starts with an empty buffer
GzCreate ==
    /\ xpc = "gz_create"
    /\ \/ /\ bin' = SetTarget([exists |-> TRUE, content |-> <<>>,
                               mode |-> IF target.exists THEN target.mode
                                        ELSE CreateMode])
          /\ output_file' = TRUE
          /\ xpc' = "gz_copy"
          /\ UNCHANGED extracted
       \/ /\ Finish("CreateFailed")
          /\ UNCHANGED <<bin, output_file>>
    /\ UNCHANGED <<pureVars, path, fname, tarball, before, extension, file,
                   pos, writer, perms>>

\* line 80, io::copy: one more unit is decoded into the buffer
GzCopyRead ==
    /\ xpc = "gz_copy"
    /\ Len(writer) < BufCap
    /\ pos < Len(tarball.data)
    /\ tarball.bad # pos + 1
    /\ writer' = Append(writer, tarball.data[pos + 1])
    /\ pos' = pos + 1
    /\ UNCHANGED <<pureVars, path, fname, tarball, bin, before, extension,
                   file, output_file, perms, xpc, extracted>>

\* line 80, io::copy: the buffer is written to the file
GzCopyFlush ==
    /\ xpc = "gz_copy"
    /\ writer # <<>>
    /\ bin' = SetTarget([target EXCEPT !.content = @ \o writer])
    /\ writer' = <<>>
    /\ UNCHANGED <<pureVars, path, fname, tarball, before, extension, file,
                   output_file, pos, perms, xpc, extracted>>

\* line 80, io::copy fails: the gzip stream is damaged at the next unit, or
\* the write of the buffer fails.  `?` returns and the BufWriter is dropped,
\* which writes the buffer when it can and ignores a failure.
GzCopyFail ==
    /\ xpc = "gz_copy"
    /\ \/ /\ Len(writer) < BufCap
          /\ tarball.bad = pos + 1
          /\ \/ bin' = SetTarget([target EXCEPT !.content = @ \o writer])
             \/ UNCHANGED bin
       \/ /\ writer # <<>>
          /\ UNCHANGED bin
    /\ writer' = <<>>
    /\ Finish("CopyFailed")
    /\ UNCHANGED <<pureVars, path, fname, tarball, before, extension, file,
                   output_file, pos, perms>>

\* line 80, io::copy returns at the end of the stream.  io::copy does not
\* promise to flush the writer: how much stays in the buffer is left to the
\* standard library (GzCopyRead and GzCopyFlush interleave freely).
GzCopyEof ==
    /\ xpc = "gz_copy"
    /\ pos = Len(tarball.data)
    /\ tarball.bad = 0
    /\ xpc' = "metadata"
    /\ UNCHANGED <<pureVars, path, fname, tarball, bin, before, extension,
                   file, output_file, pos, writer, perms, extracted>>

\* line 86-92 and 98: the next entry of the archive is read and its base
\* name compared with the wanted name
TarNext ==
    /\ xpc = "tar_next"
    /\ IF tarball.bad = pos + 1
       THEN /\ Finish("ReadEntryFailed")
            /\ UNCHANGED pos
       ELSE IF pos = Len(tarball.entries)
       THEN /\ Finish("NotFound")
            /\ UNCHANGED pos
       ELSE /\ pos' = pos + 1
            /\ xpc' = IF entry_matches(tarball.entries[pos + 1], fname)
                      THEN "unpack" ELSE "tar_next"
            /\ UNCHANGED extracted
    /\ UNCHANGED <<pureVars, path, fname, tarball, bin, before, extension,
                   file, output_file, writer, perms>>

\* line 93, Entry::unpack: an existing file is removed and a new one created
TarUnpackCreate ==
    /\ xpc = "unpack"
    /\ ~output_file
    /\ \/ /\ bin' = SetTarget([exists |-> TRUE, content |-> <<>>,
                               mode |-> CreateMode])
          /\ output_file' = TRUE
          /\ UNCHANGED <<xpc, extracted>>
       \/ /\ Finish("UnpackFailed")
          /\ UNCHANGED <<bin, output_file>>
    /\ UNCHANGED <<pureVars, path, fname, tarball, before, extension, file,
                   pos, writer, perms>>

\* line 93, Entry::unpack: the entry's data is copied to the file
TarUnpackWrite ==
    /\ xpc = "unpack"
    /\ output_file
    /\ Len(target.content) < Len(tarball.entries[pos].data)
    /\ \/ /\ bin' = SetTarget([target EXCEPT !.content =
                Append(@, tarball.entries[pos].data[Len(@) + 1])])
          /\ UNCHANGED <<xpc, extracted>>
       \/ /\ Finish("UnpackFailed")
          /\ UNCHANGED bin
    /\ UNCHANGED <<pureVars, path, fname, tarball, before, extension, file,
                   output_file, pos, writer, perms>>

\* line 93, Entry::unpack: the header's mode is put on the finished file
TarUnpackPerms ==
    /\ xpc = "unpack"
    /\ output_file
    /\ Len(target.content) = Len(tarball.entries[pos].data)
    /\ bin' = SetTarget([target EXCEPT !.mode =
                            BitAnd(tarball.entries[pos].mode, PermMask)])
    /\ xpc' = "metadata"
    /\ UNCHANGED <<pureVars, path, fname, tarball, before, extension, file,
                   output_file, pos, writer, perms, extracted>>

\* line 104: fs::metadata(&path)?.permissions()
Metadata ==
    /\ xpc = "metadata"
    /\ perms' = target.mode
    /\ xpc' = "set_permissions"
    /\ UNCHANGED <<pureVars, path, fname, tarball, bin, before, extension,
                   file, output_file, pos, writer, extracted>>

\* line 105-106: perms.set_mode(perms.mode() | 0o111); fs::set_permissions
SetPermissions ==
    /\ xpc = "set_permissions"
    /\ perms' = exec_mode(perms)
    /\ bin' = SetTarget([target EXCEPT !.mode = exec_mode(perms)])
    /\ xpc' = "return"
    /\ UNCHANGED <<pureVars, path, fname, tarball, before, extension, file,
                   output_file, pos, writer, extracted>>

\* line 82 / 95: Ok(outpath).  Leaving the Gz arm drops the BufWriter, which
\* writes what its buffer still holds; a failure of that write is ignored.
Return ==
    /\ xpc = "return"
    /\ \/ bin' = SetTarget([target EXCEPT !.content = @ \o writer])
       \/ writer # <<>> /\ UNCHANGED bin
    /\ writer' = <<>>
    /\ Finish("Ok")
    /\ UNCHANGED <<pureVars, path, fname, tarball, before, extension, file,
                   output_file, pos, perms>>

extract_file ==
    \/ Classify
    \/ Open
    \/ GzCreate
    \/ GzCopyRead
    \/ GzCopyFlush
    \/ GzCopyFail
    \/ GzCopyEof
    \/ TarNext
    \/ TarUnpackCreate
    \/ TarUnpackWrite
    \/ TarUnpackPerms
    \/ Metadata
    \/ SetPermissions
    \/ Return

(***************************************************************************)
(* Specification of extract_file alone                                     *)
(***************************************************************************)
Bin == <<"b">>       \* the wanted file name
Dir == <<"d">>
BinUpper == <<"B">>

ArchiveNames ==
    { <<"x">> \o TAR_GZ, TAR_GZ, <<"x">> \o GZ, GZ,
      <<"x", ".", "t", "a", "r">>, <<"x", ".", "t", "g", "z">>,
      <<"x", "g", "z">>, <<"x", ".", "G", "Z">>, <<"x">> \o TAR_GZ \o <<"x">>,
      <<"x", ".", "t", "a", "r", "g", "z">> }

ArchivePaths == { <<Dir, n>> : n \in ArchiveNames } \cup { <<Dir, ParentDir>> }

EntryPaths == { <<Bin>>, <<Dir, Bin>>, <<Bin, Dir>>, <<Bin, ParentDir>>,
                <<BinUpper, CurDir>> }

\* header mode and data of an entry: 0o644 "p", 0o4750 "qq"
EntryKinds == { [mode |-> 420, data |-> <<"p">>],
                [mode |-> 2536, data |-> <<"q", "q">>] }

Entries == { [path |-> p, mode |-> k.mode, data |-> k.data] :
                p \in EntryPaths, k \in EntryKinds }

TarBalls ==
    UNION { { [exists |-> TRUE, entries |-> es, data |-> <<>>, bad |-> b] :
                b \in 0..(Len(es) + 1) } :
            es \in SeqsUpTo(Entries, MaxEntries) }

GzBalls ==
    UNION { { [exists |-> TRUE, entries |-> <<>>, data |-> d, bad |-> b] :
                b \in 0..(Len(d) + 1) } :
            d \in SeqsUpTo({"h", "i"}, MaxData) }

Missing == [exists |-> FALSE, entries |-> <<>>, data |-> <<>>, bad |-> 0]

\* the output file before the call: absent, or an installed binary
OldFiles == { NoFile,
              [exists |-> TRUE, content |-> <<"o">>, mode |-> 493],
              [exists |-> TRUE, content |-> <<"o">>, mode |-> 384] }

\* execute_from_config is not running
MainIdle ==
    /\ config = <<>>
    /\ repos = <<>>
    /\ idx = 0
    /\ run = "None"
    /\ handled = <<>>
    /\ pc = "idle"
    /\ current_version = None
    /\ release_version = None
    /\ extracted_version = None

ExtractIdle ==
    /\ extension = "None"
    /\ file = FALSE
    /\ output_file = FALSE
    /\ pos = 0
    /\ writer = <<>>
    /\ perms = 0
    /\ extracted = "None"

InitExtract ==
    /\ s = <<>> /\ version = None /\ release = NoRelease
    /\ pat = <<>> /\ asset = None
    /\ path \in ArchivePaths
    /\ fname = Bin
    /\ tarball \in
          {Missing} \cup
          (IF from_path(path) = "TarGz" THEN TarBalls
           ELSE IF from_path(path) = "Gz" THEN GzBalls
           ELSE { [exists |-> TRUE, entries |-> <<>>, data |-> <<"h">>,
                    bad |-> 0] })
    /\ bin \in [{Bin} -> OldFiles]
    /\ before = bin
    /\ ExtractIdle
    /\ xpc = "classify"
    /\ MainIdle

\* no extraction is going on
NoExtract ==
    /\ path = <<>>
    /\ fname = <<>>
    /\ tarball = Missing
    /\ bin = [n \in {} |-> NoFile]
    /\ before = bin
    /\ ExtractIdle
    /\ xpc = "idle"

NextExtract == extract_file

SpecExtract == InitExtract /\ [][NextExtract]_vars

(***************************************************************************)
(* domain/repo.rs: Repository::from_str; config.rs: Configuration          *)
(***************************************************************************)
\* str::find: 1-based position of the first c at or after i, 0 when absent
RECURSIVE IndexOf(_, _, _)
IndexOf(str, c, i) ==
    IF i > Len(str) THEN 0
    ELSE IF str[i] = c THEN i
    ELSE IndexOf(str, c, i + 1)

NoRepository == [ok |-> FALSE, user |-> <<>>, repository |-> <<>>]

Repository_from_str(str) ==
    LET k == IndexOf(str, "/", 1)
        user == SubSeq(str, 1, k - 1)
        repository == SubSeq(str, k + 1, Len(str))
    IN  IF k = 0 THEN NoRepository
        ELSE IF IndexOf(user, "/", 1) # 0 \/ IndexOf(repository, "/", 1) # 0
        THEN NoRepository
        ELSE [ok |-> TRUE, user |-> user, repository |-> repository]

\* Configuration::validate: no repo string occurs twice
validate(cfg) ==
    \A i, j \in 1..Len(cfg) : cfg[i].repo = cfg[j].repo => i = j

\* Configuration::read_repositories: every repo string has to parse
read_repositories(cfg) ==
    IF \A i \in 1..Len(cfg) : Repository_from_str(cfg[i].repo).ok
    THEN [ok |-> TRUE,
          repos |-> [i \in 1..Len(cfg) |->
                        [repository |-> Repository_from_str(cfg[i].repo),
                         pat |-> cfg[i].pat]]]
    ELSE [ok |-> FALSE, repos |-> <<>>]

(***************************************************************************)
(* main.rs: execute_from_config and handle_repo, step by step              *)
(***************************************************************************)
\* faulty variant: an equal version counts as newer
version_ge(a, b) ==
    \/ a.major > b.major
    \/ a.major = b.major /\ a.minor > b.minor
    \/ a.major = b.major /\ a.minor = b.minor /\ a.patch >= b.patch

\* semver::Version ordering (no pre-release part): release > current
version_gt(a, b) ==
    \/ a.major > b.major
    \/ a.major = b.major /\ a.minor > b.minor
    \/ a.major = b.major /\ a.minor = b.minor /\ a.patch > b.patch

CommandFailed == <<"failed">>

\* utils.rs get_version: run the binary, then extract_version on its output
get_version(output) ==
    IF output = CommandFailed
    THEN [tag |-> "CommandFailed", major |-> 0, minor |-> 0, patch |-> 0,
          text |-> <<>>]
    ELSE extract_version(output)

T100  == <<"v", "1", ".", "0", ".", "0">>
T010  == <<"0", ".", "1", ".", "0">>
TNone == <<"v">>

CommandOutputs == {T100, T010, TNone, CommandFailed}

GzAsset  == <<"l">> \o GZ
TgzAsset == <<"L">> \o TAR_GZ

Releases ==
    { [tag_name |-> tg, body |-> bd, assets |-> as] :
        tg \in {T100, TNone}, bd \in {<<>>, T010},
        as \in { <<[name |-> GzAsset, browser_download_url |-> 1]>>,
                 <<[name |-> GzAsset, browser_download_url |-> 1],
                   [name |-> TgzAsset, browser_download_url |-> 2]>> } }

\* what the downloaded file holds
Downloads(name) ==
    IF from_path(<<name>>) = "TarGz"
    THEN { [exists |-> TRUE, data |-> <<>>, bad |-> 0,
            entries |-> <<[path |-> <<Dir, Bin>>, mode |-> 420,
                           data |-> <<"p">>]>>] }
    ELSE { [exists |-> TRUE, entries |-> <<>>, data |-> <<"h">>, bad |-> 0] }

RepoStrings == { <<"u", "/", "b">>, <<"u", "/", "c">>, <<"b">>,
                 <<"u", "/", "b", "/", "c">> }
Pats == { <<"l">>, <<".", "t">> }
BinNames == { <<"b">>, <<"c">> }

Installed == [exists |-> TRUE, content |-> <<"o">>, mode |-> 493]

handleVars == <<current_version, release_version, extracted_version,
                release, pat, asset>>

\* the call of handle_repo for repos[idx] ends with result r (line 76-80:
\* an error is printed and the loop goes on)
EndRepo(r) ==
    /\ pc' = "loop"
    /\ handled' = Append(handled, [index |-> idx, result |-> r])

\* line 72-74: get_configuration(&config_path)?.read_repositories()?
ReadConfig ==
    /\ pc = "read_config"
    /\ IF validate(config) /\ read_repositories(config).ok
       THEN /\ repos' = read_repositories(config).repos
            /\ pc' = "loop"
            /\ UNCHANGED run
       ELSE /\ run' = "Err"
            /\ pc' = "done"
            /\ UNCHANGED repos
    /\ UNCHANGED <<s, version, extractVars, config, idx, handled, handleVars>>

\* line 75 and 82: the next (repo, pat) pair, or Ok(()) after the last one.
\* The locals of the previous handle_repo call are gone.
LoopNext ==
    /\ pc = "loop"
    /\ IF idx < Len(repos)
       THEN /\ idx' = idx + 1
            /\ pat' = repos[idx + 1].pat
            /\ pc' = "get_version"
            /\ UNCHANGED run
       ELSE /\ run' = "Ok"
            /\ pat' = <<>>
            /\ pc' = "done"
            /\ UNCHANGED idx
    /\ current_version' = None
    /\ release_version' = None
    /\ extracted_version' = None
    /\ release' = NoRelease
    /\ asset' = None
    /\ path' = <<>> /\ fname' = <<>> /\ tarball' = Missing
    /\ before' = bin
    /\ extension' = "None" /\ file' = FALSE /\ output_file' = FALSE
    /\ pos' = 0 /\ writer' = <<>> /\ perms' = 0
    /\ xpc' = "idle" /\ extracted' = "None"
    /\ UNCHANGED <<s, version, bin, config, repos, handled>>

\* line 156: get_version(&repo.repository).await?
GetVersion ==
    /\ pc = "get_version"
    /\ \E output \in CommandOutputs :
          IF get_version(output).tag = "Ok"
          THEN /\ current_version' = get_version(output)
               /\ pc' = "get_latest_release"
               /\ UNCHANGED handled
          ELSE /\ EndRepo(get_version(output).tag)
               /\ UNCHANGED current_version
    /\ UNCHANGED <<s, version, extractVars, config, repos, idx, run,
                   release_version, extracted_version, release, pat, asset>>

\* line 157-160: client.get_latest_release(repo).await
GetLatestRelease ==
    /\ pc = "get_latest_release"
    /\ \/ \E r \in Releases :
             /\ release' = r
             /\ pc' = "version"
             /\ UNCHANGED handled
       \/ /\ EndRepo("Failed to get latest release.")
          /\ UNCHANGED release
    /\ UNCHANGED <<s, version, extractVars, config, repos, idx, run,
                   current_version, release_version, extracted_version,
                   pat, asset>>

\* line 161: release.version()?
ReleaseVersion ==
    /\ pc = "version"
    /\ IF Release_version(release).tag = "Ok"
       THEN /\ release_version' = Release_version(release)
            /\ pc' = "compare"
            /\ UNCHANGED handled
       ELSE /\ EndRepo(Release_version(release).tag)
            /\ UNCHANGED release_version
    /\ UNCHANGED <<s, version, extractVars, config, repos, idx, run,
                   current_version, extracted_version, release, pat, asset>>

\* line 162 and 190-198: if release_version > current_version ... else Ok(())
Compare ==
    /\ pc = "compare"
    /\ IF version_gt(release_version, current_version)
       THEN /\ pc' = "find_asset"
            /\ UNCHANGED handled
       ELSE EndRepo("Ok")
    /\ UNCHANGED <<s, version, extractVars, config, repos, idx, run,
                   handleVars>>

\* line 163: release.find_asset(pat)?
HandleFindAsset ==
    /\ pc = "find_asset"
    /\ asset' = find_asset(release, pat)
    /\ IF find_asset(release, pat).tag = "Ok"
       THEN /\ pc' = "download_asset"
            /\ UNCHANGED handled
       ELSE EndRepo(find_asset(release, pat).tag)
    /\ UNCHANGED <<s, version, extractVars, config, repos, idx, run,
                   current_version, release_version, extracted_version,
                   release, pat>>

\* line 165 and 171-172: client.download_asset(...).await?, then
\* extract_file_async(path, &repo.repository, binaries_location, &pb2)
DownloadAsset ==
    /\ pc = "download_asset"
    /\ \/ \E d \in Downloads(asset.asset.name) :
             /\ path' = <<Dir, asset.asset.name>>
             /\ tarball' = d
             /\ fname' = repos[idx].repository.repository
             /\ before' = bin
             /\ xpc' = "classify"
             /\ pc' = "extract"
             /\ UNCHANGED handled
       \/ /\ EndRepo("Failed to download.")
          /\ UNCHANGED <<path, tarball, fname, before, xpc>>
    /\ UNCHANGED <<s, version, bin, extension, file, output_file, pos, writer,
                   perms, extracted, config, repos, idx, run, handleVars>>

\* line 171-172: extract_file_async(...).await? has returned
Extracted ==
    /\ pc = "extract"
    /\ xpc = "done"
    /\ IF extracted = "Ok"
       THEN /\ pc' = "extracted_version"
            /\ UNCHANGED handled
       ELSE EndRepo(extracted)
    /\ UNCHANGED <<s, version, extractVars, config, repos, idx, run,
                   handleVars>>

\* line 178-183: get_version(extracted_path).await?, compared with the
\* release's version
ExtractedVersion ==
    /\ pc = "extracted_version"
    /\ \E output \in CommandOutputs :
          /\ extracted_version' = get_version(output)
          /\ IF get_version(output).tag # "Ok"
             THEN EndRepo(get_version(output).tag)
             ELSE IF get_version(output) # release_version
             THEN EndRepo("Version mismatch.")
             ELSE EndRepo("Ok")
    /\ UNCHANGED <<s, version, extractVars, config, repos, idx, run,
                   current_version, release_version, release, pat, asset>>

handle_repo ==
    \/ GetVersion
    \/ GetLatestRelease
    \/ ReleaseVersion
    \/ Compare
    \/ HandleFindAsset
    \/ DownloadAsset
    \/ extract_file
    \/ Extracted
    \/ ExtractedVersion

Configs ==
    SeqsUpTo({ [repo |-> r, pat |-> p] : r \in RepoStrings, p \in Pats },
             MaxRepos)

Init ==
    /\ s = <<>> /\ version = None
    /\ release = NoRelease /\ pat = <<>> /\ asset = None
    /\ path = <<>> /\ fname = <<>> /\ tarball = Missing
    /\ bin \in { [n \in BinNames |-> NoFile], [n \in BinNames |-> Installed] }
    /\ before = bin
    /\ ExtractIdle
    /\ xpc = "idle"
    /\ config \in Configs
    /\ repos = <<>>
    /\ idx = 0
    /\ run = "None"
    /\ handled = <<>>
    /\ pc = "read_config"
    /\ current_version = None
    /\ release_version = None
    /\ extracted_version = None

Next ==
    \/ ReadConfig
    \/ LoopNext
    \/ handle_repo

Spec == Init /\ [][Next]_vars

(***************************************************************************)
(* Specification of extract_version alone                                  *)
(***************************************************************************)
InitVersion ==
    /\ s \in SeqsUpTo(TextChars, MaxTextLen)
    /\ version = None
    /\ release = NoRelease
    /\ pat = <<>>
    /\ asset = None
    /\ NoExtract
    /\ MainIdle

ExtractVersion ==
    /\ version = None
    /\ version' = extract_version(s)
    /\ UNCHANGED <<s, release, pat, asset, extractVars, mainVars>>

NextVersion == ExtractVersion

SpecVersion == InitVersion /\ [][NextVersion]_vars

(***************************************************************************)
(* Specification of Release::find_asset alone                              *)
(***************************************************************************)
AssetNames == SeqsUpTo(NameChars, MaxNameLen) \ {<<>>}

\* the assets of a release carry distinct download URLs
AssetLists ==
    { [i \in 1..Len(ns) |-> [name |-> ns[i], browser_download_url |-> i]] :
        ns \in SeqsUpTo(AssetNames, MaxAssets) }

InitAsset ==
    /\ s = <<>>
    /\ version = None
    /\ release \in { [tag_name |-> <<>>, body |-> <<>>, assets |-> as] :
                        as \in AssetLists }
    /\ pat \in SeqsUpTo(NameChars, MaxPatLen)
    /\ asset = None
    /\ NoExtract
    /\ MainIdle

FindAsset ==
    /\ asset = None
    /\ asset' = find_asset(release, pat)
    /\ UNCHANGED <<s, version, release, pat, extractVars, mainVars>>

NextAsset == FindAsset

SpecAsset == InitAsset /\ [][NextAsset]_vars

(***************************************************************************)
(* Specification of Release::version alone                                 *)
(***************************************************************************)
Bodies == { <<>>, TNone, T100, T010 }

InitRelease ==
    /\ s = <<>>
    /\ version = None
    /\ release \in { [tag_name |-> tg, body |-> bd, assets |-> <<>>] :
                        tg \in SeqsUpTo(TextChars, MaxTagLen),
                        bd \in Bodies }
    /\ pat = <<>>
    /\ asset = None
    /\ NoExtract
    /\ MainIdle

ReleaseVersionOf ==
    /\ version = None
    /\ version' = Release_version(release)
    /\ UNCHANGED <<s, release, pat, asset, extractVars, mainVars>>

NextRelease == ReleaseVersionOf

SpecRelease == InitRelease /\ [][NextRelease]_vars

(***************************************************************************)
(* Properties of extract_file                                              *)
(***************************************************************************)
HasSuffix(n, suf) == \E k \in 0..Len(n) : SubSeq(n, k + 1, Len(n)) = suf

ArchiveName == Path_file_name(path)

TarStates == {"open", "tar_next", "unpack", "metadata", "set_permissions",
              "return", "done"}
GzStates  == {"open", "gz_create", "gz_copy", "metadata", "set_permissions",
              "return", "done"}

\* C5: the archive is classified by the suffix of its file name alone:
\* ".tar.gz" is handled as TarGz, ".gz" without ".tar.gz" as Gz, and any
\* other name fails as unsupported before the archive is opened and before
\* the output file is created or modified.
C5_ClassifiedBySuffix ==
    (xpc \notin {"idle", "classify"} /\ ArchiveName # NoName) =>
        /\ HasSuffix(ArchiveName, TAR_GZ) =>
              /\ extension = "TarGz"
              /\ xpc \in TarStates
              /\ extracted \in {"None", "Ok", "OpenFailed", "ReadEntryFailed",
                                "UnpackFailed", "NotFound"}
        /\ (HasSuffix(ArchiveName, GZ) /\ ~HasSuffix(ArchiveName, TAR_GZ)) =>
              /\ extension = "Gz"
              /\ xpc \in GzStates
              /\ extracted \in {"None", "Ok", "OpenFailed", "CreateFailed",
                                "CopyFailed"}
        /\ ~HasSuffix(ArchiveName, GZ) =>
              /\ xpc = "done"
              /\ extracted = "UnsupportedExtension"
              /\ ~file
              /\ ~output_file
              /\ bin = before

\* an archive that exists is refused for its name; the installed file stays
C5_Witness ==
    /\ extracted = "UnsupportedExtension"
    /\ tarball.exists
    /\ target.exists
    /\ contains(ArchiveName, <<"g", "z">>)

MatchSet == { i \in 1..Len(tarball.entries) :
                Path_file_name(tarball.entries[i].path) = fname }

First == CHOOSE i \in MatchSet : \A j \in MatchSet : i <= j

IsPrefix(a, b) == Len(a) <= Len(b) /\ SubSeq(b, 1, Len(a)) = a

\* C6: in a .tar.gz archive the first entry whose base name equals the
\* wanted name decides: it alone is unpacked to the output file and the
\* scan stops there; without such an entry the call fails with not-found.
C6_FirstMatchWins ==
    extension = "TarGz" =>
        /\ MatchSet # {} => pos <= First
        /\ output_file =>
              /\ MatchSet # {}
              /\ pos = First
              /\ IsPrefix(target.content, tarball.entries[First].data)
        /\ extracted = "Ok" =>
              /\ output_file
              /\ target.content = tarball.entries[First].data
        /\ extracted = "NotFound" =>
              /\ MatchSet = {}
              /\ bin = before
        /\ (xpc = "done" /\ tarball.exists /\ tarball.bad = 0
                         /\ MatchSet = {}) =>
              extracted = "NotFound"
        /\ (xpc = "done" /\ tarball.exists /\ MatchSet # {}
                         /\ (tarball.bad = 0 \/ tarball.bad > First)) =>
              extracted \in {"Ok", "UnpackFailed"}

\* two entries carry the wanted base name with different data, the first of
\* them is not the first entry of the archive
C6_Witness ==
    /\ extension = "TarGz"
    /\ extracted = "Ok"
    /\ First > 1
    /\ \E j \in MatchSet :
          /\ j > First
          /\ tarball.entries[j].data # tarball.entries[First].data

Bit(m, k) == (m \div (2 ^ k)) % 2 = 1

\* the mode of the output file once its content is in place
WrittenMode ==
    IF extension = "Gz"
    THEN IF before[fname].exists THEN before[fname].mode ELSE CreateMode
    ELSE BitAnd(tarball.entries[pos].mode, PermMask)

\* C7: after a successful call the mode of the output file is the mode it
\* had once its content was written with the three execute bits added:
\* bits 0, 3 and 6 are set and every other bit is as it was.
C7_ExecBitsAdded ==
    extracted = "Ok" =>
        \A k \in 0..11 :
            Bit(target.mode, k) <=> (Bit(WrittenMode, k) \/ k \in {0, 3, 6})

\* the written file had no execute bit at all
C7_Witness ==
    /\ extracted = "Ok"
    /\ \A k \in {0, 3, 6} : ~Bit(WrittenMode, k)
    /\ \E k \in 0..11 : Bit(WrittenMode, k)

\* the content the output file is to receive
FullContent ==
    IF extension = "Gz" THEN tarball.data ELSE tarball.entries[pos].data

\* C10: there is no state in which the output file written by the call is
\* marked executable while its content is still incomplete.
C10_ExecutableOnlyWhenComplete ==
    (output_file /\ \E k \in {0, 3, 6} : Bit(target.mode, k)) =>
        target.content = FullContent

\* C12: when extract_file returns an error, the file at
\* output_directory/target_file_name is exactly what it was before the call.
C12_FailsAtomically ==
    (xpc = "done" /\ extracted # "Ok") => target = before[fname]

(***************************************************************************)
(* Properties of handle_repo and execute_from_config                       *)
(***************************************************************************)
\* major.minor.patch as one number
Weight(v) ==
    v.major * (MaxNumber + 1) * (MaxNumber + 1) + v.minor * (MaxNumber + 1)
    + v.patch

Newer ==
    /\ release_version # None
    /\ current_version # None
    /\ Weight(release_version) > Weight(current_version)

UpdatePath == {"find_asset", "download_asset", "extract", "extracted_version"}

\* asset selection, download and extraction happen only for a newer release
C8_OnUpdatePath ==
    (pc \in UpdatePath \/ asset # None \/ xpc # "idle") => Newer

\* the comparison sends a newer release to find_asset and ends the call with
\* Ok, nothing selected, nothing extracted, nothing written, otherwise
C8_AtCompare ==
    pc = "compare" =>
        IF Newer
        THEN pc' = "find_asset"
        ELSE /\ pc' = "loop"
             /\ handled' = Append(handled, [index |-> idx, result |-> "Ok"])
             /\ asset' = None
             /\ xpc' = "idle"
             /\ bin' = bin

\* the binaries location changes only during the extraction of a newer
\* release
C8_Writes == bin' # bin => (Newer /\ pc = "extract")

\* C8: handle_repo selects, downloads and extracts an asset only when the
\* release's version is strictly greater than the installed one; otherwise
\* it ends with Ok without find_asset, download_asset or extract_file and
\* without writing to the binaries location.
C8_UpdateOnlyWhenNewer ==
    [](C8_OnUpdatePath) /\ [][C8_AtCompare /\ C8_Writes]_vars

\* a release of the installed version was handled: Ok, nothing touched
C8_Witness ==
    /\ pc = "loop"
    /\ handled # <<>>
    /\ handled[Len(handled)].result = "Ok"
    /\ release_version # None
    /\ release_version = current_version
    /\ asset = None
    /\ xpc = "idle"
    /\ bin = before
    /\ bin[<<"b">>].exists

WellFormedRepo(str) ==
    Cardinality({ i \in 1..Len(str) : str[i] = "/" }) = 1

\* C9: in config mode every configured repository is handled, in
\* configuration order, whatever another configured repository does, and
\* the run as a whole does not fail.
C9_BatchNeverAborted ==
    pc = "done" =>
        /\ \A i \in 1..Len(config) :
              WellFormedRepo(config[i].repo) =>
                  /\ run = "Ok"
                  /\ \E k \in 1..Len(handled) : handled[k].index = i
        /\ \A k, l \in 1..Len(handled) :
              k < l => handled[k].index < handled[l].index

(***************************************************************************)
(* Properties of Release::find_asset                                       *)
(***************************************************************************)
\* a name matches when some offset of the lowered name carries the pattern
NameMatches(name, p) ==
    \E i \in 1..(Len(name) + 1) :
        /\ i + Len(p) - 1 <= Len(name)
        /\ SubSeq(to_lowercase(name), i, i + Len(p) - 1) = p

MatchIdx == { i \in 1..Len(release.assets) :
                NameMatches(release.assets[i].name, pat) }

\* the k-th matching position, in list order
KthMatch(k) ==
    CHOOSE i \in MatchIdx : Cardinality({ j \in MatchIdx : j < i }) = k - 1

\* C1: find_asset returns the matching asset when exactly one asset name
\* matches, fails with NoAsset carrying the pattern when none matches, and
\* fails with ManyAssets carrying the pattern and the names of all matching
\* assets, in list order, when two or more match.
C1_FindAssetOutcome ==
    asset # None =>
        /\ MatchIdx = {} =>
              /\ asset.tag = "NoAsset"
              /\ asset.pat = pat
        /\ Cardinality(MatchIdx) = 1 =>
              /\ asset.tag = "Ok"
              /\ asset.asset = release.assets[KthMatch(1)]
        /\ Cardinality(MatchIdx) >= 2 =>
              /\ asset.tag = "ManyAssets"
              /\ asset.pat = pat
              /\ asset.assets = [k \in 1..Cardinality(MatchIdx) |->
                                    release.assets[KthMatch(k)].name]

\* two of three assets match: the error lists exactly those two
C1_Witness ==
    /\ asset # None
    /\ asset.tag = "ManyAssets"
    /\ Len(release.assets) = 3
    /\ MatchIdx = {1, 3}
    /\ asset.assets[1] # asset.assets[2]

\* C2: an asset counts as a match exactly when its name contains the pattern
\* ignoring letter case, so find_asset reports NoAsset exactly when no name
\* contains the pattern once both are lowered.
C2_CaseInsensitive ==
    asset # None =>
        (asset.tag = "NoAsset" <=>
            \A i \in 1..Len(release.assets) :
                ~contains(to_lowercase(release.assets[i].name),
                          to_lowercase(pat)))

(***************************************************************************)
(* Properties of extract_version                                           *)
(***************************************************************************)
IsDigits(t) == Len(t) > 0 /\ \A k \in 1..Len(t) : IsDigit(t[k])

Dots(str) == { p \in 1..Len(str) : str[p] = "." }

\* every <<i, p, q, j>> such that str[i..j] is digits '.' digits '.' digits
\* with the dots at p and q
Triples(str) ==
    UNION { UNION { { <<i, p, q, j>> :
                i \in { i \in 1..(p - 1) : IsDigits(SubSeq(str, i, p - 1)) },
                j \in { j \in (q + 1)..Len(str) :
                            IsDigits(SubSeq(str, q + 1, j)) } } :
            q \in { q \in Dots(str) :
                        q > p + 1 /\ IsDigits(SubSeq(str, p + 1, q - 1)) } } :
        p \in Dots(str) }

\* the triple that starts first and, from there, reaches furthest
Leftmost(str) ==
    CHOOSE t \in Triples(str) :
        \A u \in Triples(str) :
            t[1] < u[1] \/ (t[1] = u[1] /\ t[4] >= u[4])

Group1(str) == SubSeq(str, Leftmost(str)[1], Leftmost(str)[2] - 1)
Group2(str) == SubSeq(str, Leftmost(str)[2] + 1, Leftmost(str)[3] - 1)
Group3(str) == SubSeq(str, Leftmost(str)[3] + 1, Leftmost(str)[4])

RECURSIVE Decimal(_)
Decimal(g) ==
    IF g = <<>> THEN 0
    ELSE 10 * Decimal(SubSeq(g, 1, Len(g) - 1)) + DigitValue(g[Len(g)])

\* a group semver accepts: ASCII digits, no leading zero, within the numeric limit
PlainNumber(g) ==
    /\ \A k \in 1..Len(g) : g[k] \in AsciiDigits
    /\ Len(g) = 1 \/ g[1] # "0"
    /\ Decimal(g) <= MaxNumber

\* C3 as stated: every text with a triple yields the leftmost triple.
C3_Original ==
    (version # None /\ Triples(s) # {}) =>
        /\ version.tag = "Ok"
        /\ version.major = Decimal(Group1(s))
        /\ version.minor = Decimal(Group2(s))
        /\ version.patch = Decimal(Group3(s))

\* C3 (amended): for a text with a triple only the leftmost triple counts.
\* When its three groups are ASCII numbers without leading zero it is
\* returned as major, minor, patch; otherwise extract_version fails with
\* the parse error.  Later triples are ignored in both cases.
C3_LeftmostTriple ==
    (version # None /\ Triples(s) # {}) =>
        IF PlainNumber(Group1(s)) /\ PlainNumber(Group2(s))
                                  /\ PlainNumber(Group3(s))
        THEN /\ version.tag = "Ok"
             /\ version.major = Decimal(Group1(s))
             /\ version.minor = Decimal(Group2(s))
             /\ version.patch = Decimal(Group3(s))
        ELSE version.tag = "ParseError"

\* a text with two triples of different value: the first one is returned
C3_Witness ==
    /\ version # None
    /\ version.tag = "Ok"
    /\ \E t \in Triples(s) :
          /\ t[1] > Leftmost(s)[2]
          /\ Decimal(SubSeq(s, t[1], t[2] - 1)) # version.major

\* C4: a text without a triple fails with the no-version-found error naming
\* the text; no Version is returned.
C4_NoVersionFound ==
    (version # None /\ Triples(s) = {}) =>
        /\ version.tag = "NoVersionFound"
        /\ version.text = s

\* digits and dots are there, a triple is not
C4_Witness ==
    /\ version # None
    /\ version.tag = "NoVersionFound"
    /\ Cardinality(Dots(s)) >= 2
    /\ \E k \in 1..Len(s) : IsDigit(s[k])

(***************************************************************************)
(* Properties of Release::version                                          *)
(***************************************************************************)
\* C11: whenever the tag name holds a triple, Release::version returns what
\* extract_version returns for the tag name (the body is not consulted).
C11_TagDecides ==
    (version # None /\ Triples(release.tag_name) # {}) =>
        version = extract_version(release.tag_name)

====
